---------------------------- MODULE Spec2Model ----------------------------
(***************************************************************************)
(* Model of src-tauri/src/utils/config_utils.rs: load_json_config,         *)
(* save_json_config and ConfigPathBuilder, over a small filesystem.        *)
(*                                                                         *)
(* Text is a sequence of one-character strings.  The configuration type T  *)
(* is the module's own TestConfig {name: String, value: i32}, extended by  *)
(* one value whose Serialize implementation fails (T is generic).          *)
(*                                                                         *)
(* Three specifications share the variables:                               *)
(*   Spec      one caller; every call of load/save is one action, and the  *)
(*             environment changes the filesystem between calls;           *)
(*   SpecPath  ConfigPathBuilder and the home directory;                   *)
(*   SpecRace  two concurrent savers, a loader and the environment, every  *)
(*             filesystem call of the handlers a step of its own.          *)
(***************************************************************************)
EXTENDS Integers, Sequences, FiniteSets, TLC

VARIABLES fs, last, home, builder, out, savers, loader

vars == <<fs, last, home, builder, out, savers, loader>>

-----------------------------------------------------------------------------
(* Bounds of the model.                                                    *)

\* longest TestConfig.name
MaxNameLen == 1
\* deepest path: the target file below MaxDepth - 1 directories
MaxDepth == 3

-----------------------------------------------------------------------------
(* Option and Result.                                                      *)

None == [some |-> FALSE]
Some(x) == [some |-> TRUE, val |-> x]

Ok(x) == [kind |-> "Ok", val |-> x]
Err(e) == [kind |-> "Err", err |-> e]

\* the prefixes of the messages the handlers format
ReadError == "Failed to read config"
ParseError == "Failed to parse config"
DirectoryError == "Failed to create config directory"
SerializeError == "Failed to serialize config"
WriteError == "Failed to write config"
HomeDirError == "Failed to get home directory"

-----------------------------------------------------------------------------
(* The configuration type.                                                 *)

I32Max == 2147483647
I32Min == -I32Max - 1

Q == "\""
BSL == "\\"
\* a byte that is no valid UTF-8
BadByte == "<FF>"
\* the control character U+0008, for which TLA+ has no escape
Backspace == "<BS>"

NameChars == {"t", Q, BSL}

RECURSIVE SeqsUpTo(_, _)
SeqsUpTo(S, n) ==
  IF n = 0 THEN {<< >>}
  ELSE LET shorter == SeqsUpTo(S, n - 1)
       IN  shorter \cup {Append(s, c) : s \in shorter, c \in S}

Names == SeqsUpTo(NameChars, MaxNameLen)
IntSamples == {0, 42, I32Min, I32Max}

\* the value of tests::test_save_and_load_config, with a one-letter name
TestValue == [name |-> <<"t">>, value |-> 42]

\* every name, every number
TestConfigs ==
  {[name |-> n, value |-> 0] : n \in Names}
    \cup {[name |-> << >>, value |-> i] : i \in IntSamples}
    \cup {TestValue}
\* a value of a type whose Serialize implementation returns an error
Unserializable == [name |-> <<BadByte>>, value |-> 0]
Values == TestConfigs \cup {Unserializable}

\* #[derive(Default)]: String::default() and i32::default()
Default == [name |-> << >>, value |-> 0]

-----------------------------------------------------------------------------
(* serde_json::to_string_pretty.                                           *)

DigitChars == <<"0", "1", "2", "3", "4", "5", "6", "7", "8", "9">>

\* the decimal digits of -m, for m <= 0 (the magnitude of i32::MIN is no i32)
RECURSIVE NegDigits(_)
NegDigits(m) ==
  LET d == (10 - (m % 10)) % 10
      q == (m + d) \div 10
  IN  IF q = 0 THEN <<DigitChars[d + 1]>>
      ELSE NegDigits(q) \o <<DigitChars[d + 1]>>

FormatI32(n) == IF n < 0 THEN <<"-">> \o NegDigits(n) ELSE NegDigits(-n)

\* a serializer that writes every character as it is
EscapeCharVerbatim(c) == <<c>>

EscapeChar(c) ==
  CASE c = Q    -> <<BSL, Q>>
    [] c = BSL  -> <<BSL, BSL>>
    [] c = "\n" -> <<BSL, "n">>
    [] c = "\t" -> <<BSL, "t">>
    [] c = "\r" -> <<BSL, "r">>
    [] c = "\f" -> <<BSL, "f">>
    [] c = Backspace -> <<BSL, "b">>
    [] OTHER    -> <<c>>

RECURSIVE EscapeAll(_)
EscapeAll(s) ==
  IF s = << >> THEN << >> ELSE EscapeChar(Head(s)) \o EscapeAll(Tail(s))

FormatStr(s) == <<Q>> \o EscapeAll(s) \o <<Q>>

Indent == <<" ", " ">>

\* PrettyFormatter: one field per line, two spaces of indent, ": " after the key
ToStringPretty(v) ==
  IF v = Unserializable THEN Err(SerializeError)
  ELSE Ok(<<"{", "\n">> \o Indent \o FormatStr(<<"n", "a", "m", "e">>)
            \o <<":", " ">> \o FormatStr(v.name) \o <<",", "\n">>
            \o Indent \o FormatStr(<<"v", "a", "l", "u", "e">>)
            \o <<":", " ">> \o FormatI32(v.value) \o <<"\n", "}">>)

-----------------------------------------------------------------------------
(* serde_json::from_str::<TestConfig>.                                     *)
(* A parser returns [ok, pos, val]: pos is the first unread position.      *)

Fail == [ok |-> FALSE, pos |-> 0, val |-> << >>]
Done(p, v) == [ok |-> TRUE, pos |-> p, val |-> v]

At(s, i) == IF i >= 1 /\ i <= Len(s) THEN s[i] ELSE "<EOF>"

Whitespace == {" ", "\n", "\t", "\r"}
ControlChars == {"\n", "\t", "\r", "\f", Backspace}
Digits == {DigitChars[k] : k \in 1..10}
HexChars == <<"0", "1", "2", "3", "4", "5", "6", "7", "8", "9",
              "a", "b", "c", "d", "e", "f">>

DigitVal(c) == CHOOSE k \in 0..9 : DigitChars[k + 1] = c
IsHex(c) == \E k \in 1..16 : HexChars[k] = c
HexVal(c) == CHOOSE k \in 0..15 : HexChars[k + 1] = c

RECURSIVE SkipWs(_, _)
SkipWs(s, i) == IF At(s, i) \in Whitespace THEN SkipWs(s, i + 1) ELSE i

\* the characters of the model's texts, by code point
CodeChar(n) ==
  CASE n = 34  -> Q
    [] n = 92  -> BSL
    [] n = 116 -> "t"
    [] n = 10  -> "\n"
    [] n = 8   -> Backspace
    [] OTHER   -> "U+" \o ToString(n)

Unescape(e) ==
  CASE e = Q   -> Q
    [] e = BSL -> BSL
    [] e = "/" -> "/"
    [] e = "n" -> "\n"
    [] e = "t" -> "\t"
    [] e = "r" -> "\r"
    [] e = "f" -> "\f"
    [] e = "b" -> Backspace

\* the text of a string, from the character after its opening quote
RECURSIVE ScanStr(_, _, _)
ScanStr(s, i, acc) ==
  LET c == At(s, i)
      e == At(s, i + 1)
  IN  IF i > Len(s) THEN Fail
      ELSE IF c = Q THEN Done(i + 1, acc)
      ELSE IF c = BSL THEN
             IF e \in {Q, BSL, "/", "n", "t", "r", "f", "b"}
               THEN ScanStr(s, i + 2, Append(acc, Unescape(e)))
             ELSE IF e = "u" /\ \A k \in 2..5 : IsHex(At(s, i + k))
               THEN ScanStr(s, i + 6,
                      Append(acc, CodeChar(4096 * HexVal(s[i + 2])
                                           + 256 * HexVal(s[i + 3])
                                           + 16 * HexVal(s[i + 4])
                                           + HexVal(s[i + 5]))))
             ELSE Fail
      ELSE IF c \in ControlChars \/ c = BadByte THEN Fail
      ELSE ScanStr(s, i + 1, Append(acc, c))

ParseStr(s, i) == IF At(s, i) = Q THEN ScanStr(s, i + 1, << >>) ELSE Fail

\* the digits from i on, accumulated as a negative magnitude m; big when the
\* magnitude exceeds 2^31
RECURSIVE ScanDigits(_, _, _, _)
ScanDigits(s, i, m, big) ==
  IF At(s, i) \notin Digits THEN [pos |-> i, m |-> m, big |-> big]
  ELSE LET d == DigitVal(s[i])
           fits == ~big /\ (m > -214748364 \/ (m = -214748364 /\ d <= 8))
       IN  ScanDigits(s, i + 1, IF fits THEN m * 10 - d ELSE m, ~fits)

\* the integer part of a number: "0", or a nonzero digit and more digits
IntPart(s, i) ==
  IF At(s, i) \notin Digits THEN Fail
  ELSE IF s[i] = "0" THEN
         IF At(s, i + 1) \in Digits THEN Fail
         ELSE Done(i + 1, [pos |-> i + 1, m |-> 0, big |-> FALSE])
  ELSE LET r == ScanDigits(s, i, 0, FALSE) IN Done(r.pos, r)

\* Deserialize for i32: an integer in range; a fraction, an exponent, "-0" and
\* what exceeds 64 bits are floats, which i32 refuses
ParseI32(s, i0) ==
  LET i == SkipWs(s, i0)
      neg == At(s, i) = "-"
      p == IntPart(s, IF neg THEN i + 1 ELSE i)
  IN  IF ~p.ok THEN Fail
      ELSE IF At(s, p.pos) \in {".", "e", "E"} THEN Fail
      ELSE IF p.val.big THEN Fail
      ELSE IF neg THEN (IF p.val.m = 0 THEN Fail ELSE Done(p.pos, p.val.m))
      ELSE IF p.val.m = I32Min THEN Fail
      ELSE Done(p.pos, -p.val.m)

\* Deserialize for String
ParseString(s, i0) == ParseStr(s, SkipWs(s, i0))

RECURSIVE DigitRun(_, _)
DigitRun(s, i) == IF At(s, i) \in Digits THEN DigitRun(s, i + 1) ELSE i

\* any number, its value ignored
SkipNumber(s, i) ==
  LET p == IntPart(s, IF At(s, i) = "-" THEN i + 1 ELSE i)
      a == p.pos
      b == IF At(s, a) = "." THEN DigitRun(s, a + 1) ELSE a
      c == IF At(s, b) \in {"e", "E"}
             THEN (IF At(s, b + 1) \in {"+", "-"} THEN b + 2 ELSE b + 1)
             ELSE b
      d == IF c > b THEN DigitRun(s, c) ELSE b
  IN  IF ~p.ok THEN Fail
      ELSE IF At(s, a) = "." /\ b = a + 1 THEN Fail
      ELSE IF c > b /\ d = c THEN Fail
      ELSE Done(d, << >>)

Literal(s, i, w) ==
  IF \A k \in 1..Len(w) : At(s, i + k - 1) = w[k]
    THEN Done(i + Len(w), << >>) ELSE Fail

\* IgnoredAny: any JSON value, skipped (the value of an unknown field)
RECURSIVE SkipValue(_, _)
RECURSIVE SkipElems(_, _, _)
RECURSIVE SkipMembers(_, _, _)
SkipValue(s, i0) ==
  LET i == SkipWs(s, i0)
      c == At(s, i)
  IN  CASE c = Q   -> ParseStr(s, i)
        [] c = "{" -> SkipMembers(s, i + 1, TRUE)
        [] c = "[" -> SkipElems(s, i + 1, TRUE)
        [] c = "t" -> Literal(s, i, <<"t", "r", "u", "e">>)
        [] c = "f" -> Literal(s, i, <<"f", "a", "l", "s", "e">>)
        [] c = "n" -> Literal(s, i, <<"n", "u", "l", "l">>)
        [] c = "-" \/ c \in Digits -> SkipNumber(s, i)
        [] OTHER   -> Fail

SkipElems(s, i0, first) ==
  LET i == SkipWs(s, i0)
      c == At(s, i)
      j == IF first THEN i ELSE SkipWs(s, i + 1)
      v == SkipValue(s, j)
  IN  IF c = "]" THEN Done(i + 1, << >>)
      ELSE IF ~first /\ c /= "," THEN Fail
      ELSE IF At(s, j) = "]" THEN Fail
      ELSE IF ~v.ok THEN Fail
      ELSE SkipElems(s, v.pos, FALSE)

SkipMembers(s, i0, first) ==
  LET i == SkipWs(s, i0)
      c == At(s, i)
      j == IF first THEN i ELSE SkipWs(s, i + 1)
      k == ParseStr(s, j)
      col == SkipWs(s, k.pos)
      v == SkipValue(s, col + 1)
  IN  IF c = "}" THEN Done(i + 1, << >>)
      ELSE IF ~first /\ c /= "," THEN Fail
      ELSE IF ~k.ok THEN Fail
      ELSE IF At(s, col) /= ":" THEN Fail
      ELSE IF ~v.ok THEN Fail
      ELSE SkipMembers(s, v.pos, FALSE)

NameKey == <<"n", "a", "m", "e">>
ValueKey == <<"v", "a", "l", "u", "e">>

\* visit_map of the derived Deserialize: fields in any order, unknown fields
\* ignored, a duplicate or a missing field an error
RECURSIVE MapLoop(_, _, _, _, _)
MapLoop(s, i0, first, nm, vl) ==
  LET i == SkipWs(s, i0)
      c == At(s, i)
      j == IF first THEN i ELSE SkipWs(s, i + 1)
      k == ParseStr(s, j)
      col == SkipWs(s, k.pos)
      asName == ParseString(s, col + 1)
      asValue == ParseI32(s, col + 1)
      asAny == SkipValue(s, col + 1)
  IN  IF c = "}" THEN
        (IF nm.some /\ vl.some
           THEN Done(i + 1, [name |-> nm.val, value |-> vl.val])
           ELSE Fail)
      ELSE IF ~first /\ c /= "," THEN Fail
      ELSE IF ~k.ok THEN Fail
      ELSE IF At(s, col) /= ":" THEN Fail
      ELSE IF k.val = NameKey THEN
        (IF nm.some \/ ~asName.ok THEN Fail
         ELSE MapLoop(s, asName.pos, FALSE, Some(asName.val), vl))
      ELSE IF k.val = ValueKey THEN
        (IF vl.some \/ ~asValue.ok THEN Fail
         ELSE MapLoop(s, asValue.pos, FALSE, nm, Some(asValue.val)))
      ELSE IF ~asAny.ok THEN Fail
      ELSE MapLoop(s, asAny.pos, FALSE, nm, vl)

\* visit_seq of the derived Deserialize: [name, value], exactly two elements
SeqForm(s, i0) ==
  LET i == SkipWs(s, i0)
      nm == ParseString(s, i)
      c1 == SkipWs(s, nm.pos)
      vl == ParseI32(s, c1 + 1)
      e == SkipWs(s, vl.pos)
  IN  IF At(s, i) = "]" THEN Fail
      ELSE IF ~nm.ok THEN Fail
      ELSE IF At(s, c1) /= "," THEN Fail
      ELSE IF ~vl.ok THEN Fail
      ELSE IF At(s, e) /= "]" THEN Fail
      ELSE Done(e + 1, [name |-> nm.val, value |-> vl.val])

\* deserialize_struct
ParseStruct(s) ==
  LET i == SkipWs(s, 1)
  IN  CASE At(s, i) = "{" -> MapLoop(s, i + 1, TRUE, None, None)
        [] At(s, i) = "[" -> SeqForm(s, i + 1)
        [] OTHER -> Fail

\* a parse failure taken for an absent configuration
FromStrOrDefault(s) ==
  LET r == ParseStruct(s)
  IN  IF r.ok /\ SkipWs(s, r.pos) = Len(s) + 1 THEN Ok(r.val)
      ELSE Ok(Default)

\* from_str: one value, then only whitespace to the end of the text
FromStr(s) ==
  LET r == ParseStruct(s)
  IN  IF r.ok /\ SkipWs(s, r.pos) = Len(s) + 1 THEN Ok(r.val)
      ELSE Err(ParseError)

-----------------------------------------------------------------------------
(* The filesystem: the target path and its ancestors.  A path is the       *)
(* sequence of its components, << >> the directory relative paths start    *)
(* from, which always exists.                                              *)

Chain(k) == [i \in 1..k |-> i]
Paths == {Chain(k) : k \in 0..MaxDepth}
Root == << >>

NoEntry == [kind |-> "none"]
Dir == [kind |-> "dir"]
File(d) == [kind |-> "file", data |-> d]

IsPrefix(p, q) == Len(p) <= Len(q) /\ SubSeq(q, 1, Len(p)) = p

\* Path::parent
Parent(p) == IF p = Root THEN None ELSE Some(SubSeq(p, 1, Len(p) - 1))

\* Path::exists
Exists(f, p) == f[p].kind /= "none"

IsUtf8(d) == \A k \in 1..Len(d) : d[k] /= BadByte

\* fs::read_to_string: fails on a missing entry, a directory, invalid UTF-8
ReadToString(f, p) ==
  IF f[p].kind = "file" /\ IsUtf8(f[p].data) THEN Ok(f[p].data)
  ELSE Err(ReadError)

\* fs::create_dir: one level, and an error when the entry is there
CreateDirOnly(f, p) ==
  IF p /= Root /\ f[p].kind = "none" /\ f[Parent(p).val].kind = "dir"
    THEN [ok |-> TRUE, fs |-> [f EXCEPT ![p] = Dir]]
    ELSE [ok |-> FALSE, fs |-> f]

\* fs::create_dir_all: mkdir, after the missing ancestors; an entry already
\* there is accepted when it is a directory
RECURSIVE CreateDirAll(_, _)
CreateDirAll(f, p) ==
  LET up == Parent(p).val
      above == CreateDirAll(f, up)
  IN  IF p = Root \/ f[p].kind = "dir" THEN [ok |-> TRUE, fs |-> f]
      ELSE IF f[p].kind = "file" THEN [ok |-> FALSE, fs |-> f]
      ELSE IF f[up].kind = "dir" THEN [ok |-> TRUE, fs |-> [f EXCEPT ![p] = Dir]]
      ELSE IF f[up].kind = "file" THEN [ok |-> FALSE, fs |-> f]
      ELSE IF ~above.ok THEN above
      ELSE [ok |-> TRUE, fs |-> [above.fs EXCEPT ![p] = Dir]]

\* an open for writing that creates the file but does not truncate it
OpenNoTruncate(f, p) ==
  IF p = Root \/ f[p].kind = "dir" \/ f[Parent(p).val].kind /= "dir"
    THEN [ok |-> FALSE, fs |-> f]
    ELSE [ok |-> TRUE,
          fs |-> IF f[p].kind = "file" THEN f
                 ELSE [f EXCEPT ![p] = File(<< >>)]]

\* File::create: open for writing, create when missing, truncate
OpenTruncate(f, p) ==
  IF p = Root \/ f[p].kind = "dir" \/ f[Parent(p).val].kind /= "dir"
    THEN [ok |-> FALSE, fs |-> f]
    ELSE [ok |-> TRUE, fs |-> [f EXCEPT ![p] = File(<< >>)]]

\* write_all through a handle at offset 0: the bytes replace those at the same
\* positions and leave what lies beyond them
Overlay(old, new) == new \o SubSeq(old, Len(new) + 1, Len(old))
WriteAt(f, p, c) == [f EXCEPT ![p] = File(Overlay(f[p].data, c))]

\* fs::write
FsWrite(f, p, c) ==
  LET o == OpenTruncate(f, p)
  IN  IF o.ok THEN [ok |-> TRUE, fs |-> WriteAt(o.fs, p, c)] ELSE o

-----------------------------------------------------------------------------
(* The handlers.  io lists the library calls a call made, in order.        *)

\* a load that reads without the existence check
load_without_exists(f, p) ==
  LET content == ReadToString(f, p)
  IN  IF content.kind = "Err"
        THEN [res |-> Err(ReadError), io |-> <<"read_to_string">>]
      ELSE [res |-> FromStr(content.val),
            io |-> <<"read_to_string", "from_str">>]

load_json_config(f, p) ==
  LET content == ReadToString(f, p)
  IN  IF ~Exists(f, p)
        THEN [res |-> Ok(Default), io |-> <<"exists">>]
      ELSE IF content.kind = "Err"
        THEN [res |-> Err(ReadError), io |-> <<"exists", "read_to_string">>]
      ELSE [res |-> FromStr(content.val),
            io |-> <<"exists", "read_to_string", "from_str">>]

\* a save that serializes before it makes the directories
save_serialize_first(f, v, p) ==
  LET parent == Parent(p)
      content == ToStringPretty(v)
      d == IF parent.some THEN CreateDirAll(f, parent.val)
           ELSE [ok |-> TRUE, fs |-> f]
      io2 == IF parent.some THEN <<"to_string_pretty", "create_dir_all">>
             ELSE <<"to_string_pretty">>
      w == FsWrite(d.fs, p, content.val)
  IN  IF content.kind = "Err"
        THEN [res |-> Err(SerializeError), fs |-> f,
              io |-> <<"to_string_pretty">>]
      ELSE IF ~d.ok
        THEN [res |-> Err(DirectoryError), fs |-> d.fs, io |-> io2]
      ELSE IF ~w.ok
        THEN [res |-> Err(WriteError), fs |-> w.fs, io |-> Append(io2, "write")]
      ELSE [res |-> Ok(<< >>), fs |-> w.fs, io |-> Append(io2, "write")]

save_json_config(f, v, p) ==
  LET parent == Parent(p)
      d == IF parent.some THEN CreateDirAll(f, parent.val)
           ELSE [ok |-> TRUE, fs |-> f]
      io1 == IF parent.some THEN <<"create_dir_all">> ELSE << >>
      content == ToStringPretty(v)
      io2 == Append(io1, "to_string_pretty")
      w == FsWrite(d.fs, p, content.val)
      io3 == Append(io2, "write")
  IN  IF ~d.ok
        THEN [res |-> Err(DirectoryError), fs |-> d.fs, io |-> io1]
      ELSE IF content.kind = "Err"
        THEN [res |-> Err(SerializeError), fs |-> d.fs, io |-> io2]
      ELSE IF ~w.ok
        THEN [res |-> Err(WriteError), fs |-> w.fs, io |-> io3]
      ELSE [res |-> Ok(<< >>), fs |-> w.fs, io |-> io3]

-----------------------------------------------------------------------------
(* Texts the environment puts into files.                                  *)

Pretty(v) == ToStringPretty(v).val
Member(k, text) == FormatStr(k) \o <<":">> \o text
Object(members) == <<"{">> \o members \o <<"}">>

\* not JSON: empty, cut short, followed by more, a raw newline in a string
Malformed ==
  { << >>,
    SubSeq(Pretty(Default), 1, 12),
    Pretty(Default) \o <<"}">>,
    <<"[", Q, "\n", Q, ",", "0", "]">> }

\* JSON that is no TestConfig: a field missing, twice, of another type, a
\* number that is no i32, another kind of value
Mismatched ==
  { <<"{", "}">>,
    <<"n", "u", "l", "l">>,
    Object(Member(NameKey, FormatStr(<<"t">>))),
    Object(Member(NameKey, <<"1">>) \o <<",">> \o Member(ValueKey, <<"0">>)),
    Object(Member(ValueKey, <<"0">>) \o <<",">> \o Member(NameKey, <<Q, Q>>)
           \o <<",">> \o Member(ValueKey, <<"1">>)),
    <<"[", Q, Q, ",", "1", ".", "5", "]">>,
    <<"[", Q, Q, ",", "2", "1", "4", "7", "4", "8", "3", "6", "4", "8", "]">> }

\* JSON for TestValue that to_string_pretty does not write
Compact ==
  { Object(Member(ValueKey, <<"4", "2">>) \o <<",">>
           \o Member(NameKey, FormatStr(<<"t">>))),
    Object(Member(NameKey, <<Q, BSL, "u", "0", "0", "7", "4", Q>>) \o <<",">>
           \o Member(<<"x">>, <<"[", "1", "e", "3", ",", "{", "}", "]">>)
           \o <<",", " ">> \o Member(ValueKey, <<"4", "2">>)) \o <<"\n">>,
    <<"[", Q, "t", Q, ",", " ", "4", "2", "]">> }

NotUtf8 == { <<BadByte>> }

Documents == Malformed \cup Mismatched \cup Compact \cup NotUtf8

-----------------------------------------------------------------------------
(* One caller.  last is the latest event: a call with its arguments, its    *)
(* result and its library calls, or a change made by the environment.  A   *)
(* load records the successful save it directly follows, a save the        *)
(* directories it made and whether it left the file shorter.               *)

Load(p) ==
  LET r == load_json_config(fs, p)
  IN  /\ last' = [op |-> "load", path |-> p, res |-> r.res, io |-> r.io,
                  follows |-> IF last.op = "save" /\ last.res.kind = "Ok"
                                THEN Some([path |-> last.path,
                                           value |-> last.value])
                                ELSE None]
      /\ UNCHANGED <<fs, home, builder, out, savers, loader>>

Save(v, p) ==
  LET r == save_json_config(fs, v, p)
  IN  /\ fs' = r.fs
      /\ last' = [op |-> "save", path |-> p, value |-> v, res |-> r.res,
                  io |-> r.io,
                  created |-> {q \in Paths : fs[q] /= Dir /\ r.fs[q] = Dir},
                  shrank |-> /\ fs[p].kind = "file"
                             /\ r.fs[p].kind = "file"
                             /\ Len(r.fs[p].data) < Len(fs[p].data)]
      /\ UNCHANGED <<home, builder, out, savers, loader>>

\* another program writes a file
EnvWriteFile(p, d) ==
  /\ p /= Root
  /\ fs[Parent(p).val].kind = "dir"
  /\ fs[p].kind /= "dir"
  /\ fs' = [fs EXCEPT ![p] = File(d)]
  /\ last' = [op |-> "env"]
  /\ UNCHANGED <<home, builder, out, savers, loader>>

\* another program makes a directory
EnvMkdir(p) ==
  /\ p /= Root
  /\ fs[Parent(p).val].kind = "dir"
  /\ fs[p].kind = "none"
  /\ fs' = [fs EXCEPT ![p] = Dir]
  /\ last' = [op |-> "env"]
  /\ UNCHANGED <<home, builder, out, savers, loader>>

\* another program removes an entry and what is below it
EnvRemove(p) ==
  /\ p /= Root
  /\ fs[p].kind /= "none"
  /\ fs' = [q \in Paths |-> IF IsPrefix(p, q) THEN NoEntry ELSE fs[q]]
  /\ last' = [op |-> "env"]
  /\ UNCHANGED <<home, builder, out, savers, loader>>

\* the two concurrent callers of save_json_config
Callers == {1, 2}

IdleSaver ==
  [pc |-> "idle", value |-> Default, text |-> << >>, res |-> None,
   clean |-> FALSE, detached |-> FALSE]
IdleLoader == [pc |-> "idle", res |-> None, found |-> FALSE]

Init ==
  /\ fs = [p \in Paths |-> IF p = Root THEN Dir ELSE NoEntry]
  /\ last = [op |-> "none"]
  /\ home = None
  /\ builder = None
  /\ out = [op |-> "none"]
  /\ savers = [i \in Callers |-> IdleSaver]
  /\ loader = IdleLoader

Next ==
  \/ \E p \in Paths : Load(p)
  \/ \E v \in Values, p \in Paths : Save(v, p)
  \/ \E p \in Paths, d \in Documents : EnvWriteFile(p, d)
  \/ \E p \in Paths : EnvMkdir(p)
  \/ \E p \in Paths : EnvRemove(p)

Spec == Init /\ [][Next]_vars

-----------------------------------------------------------------------------
(* ConfigPathBuilder.  A path is its text, compared by its components as   *)
(* PathBuf compares.                                                       *)

Sep == "/"

IsAbsolute(s) == s /= << >> /\ s[1] = Sep

\* PathBuf::join (push on a copy): an absolute path replaces the base; else a
\* separator is added unless the base is empty or ends with one
Join(base, path) ==
  IF IsAbsolute(path) THEN path
  ELSE IF base /= << >> /\ base[Len(base)] /= Sep THEN base \o <<Sep>> \o path
  ELSE base \o path

\* the components of a path: the texts between separators, empty ones dropped
RECURSIVE Split(_, _, _)
Split(s, cur, acc) ==
  LET flushed == IF cur = << >> THEN acc ELSE Append(acc, cur)
  IN  IF s = << >> THEN flushed
      ELSE IF Head(s) = Sep THEN Split(Tail(s), << >>, flushed)
      ELSE Split(Tail(s), Append(cur, Head(s)), acc)

Components(s) == [abs |-> IsAbsolute(s), names |-> Split(s, << >>, << >>)]

\* ConfigPathBuilder::new
new(base_dir) == [base_dir |-> base_dir]

\* a build that pushes the filename onto the stored base directory
build_push(self, filename) ==
  [path |-> Join(self.base_dir, filename),
   self |-> [base_dir |-> Join(self.base_dir, filename)]]

\* ConfigPathBuilder::build: the path, and the builder after the call
build(self, filename) ==
  [path |-> Join(self.base_dir, filename), self |-> self]

\* a constructor that takes an unresolved home for the empty path
from_home_subdir_or_empty(h, subdir) ==
  Ok(new(Join(IF h.some THEN h.val ELSE << >>, subdir)))

\* ConfigPathBuilder::from_home_subdir; h is what dirs::home_dir() returns
from_home_subdir(h, subdir) ==
  IF ~h.some THEN Err(HomeDirError)
  ELSE Ok(new(Join(h.val, subdir)))

TestDir == <<"/", "t", "e", "s", "t", "/", "d", "i", "r">>
ConfigJson == <<"c", "o", "n", "f", "i", "g", ".", "j", "s", "o", "n">>
SettingsJson ==
  <<"s", "e", "t", "t", "i", "n", "g", "s", ".", "j", "s", "o", "n">>
DotClaude == <<".", "c", "l", "a", "u", "d", "e">>
DotCodex == <<".", "c", "o", "d", "e", "x">>

BaseDirs == {TestDir, << >>, <<"d", Sep>>}
FileNames == {ConfigJson, SettingsJson, << >>, <<Sep, "e", Sep, "x">>}
Subdirs == {DotClaude, DotCodex}
Homes == {None, Some(<<Sep, "h", "o", "m", "e", Sep, "u">>), Some(<<Sep>>)}

\* builder holds the caller's builder: the struct, how it was constructed and
\* the paths it has returned.  out is the latest call.
New(base_dir) ==
  /\ builder' = Some([self |-> new(base_dir),
                      ctor |-> [op |-> "new"],
                      log |-> {}])
  /\ out' = [op |-> "new", arg |-> base_dir]
  /\ UNCHANGED <<fs, last, home, savers, loader>>

FromHomeSubdir(subdir) ==
  LET r == from_home_subdir(home, subdir)
  IN  /\ builder' = IF r.kind = "Ok"
                      THEN Some([self |-> r.val,
                                 ctor |-> [op |-> "from_home_subdir",
                                           subdir |-> subdir,
                                           home |-> home],
                                 log |-> {}])
                      ELSE builder
      /\ out' = [op |-> "from_home_subdir", arg |-> subdir,
                 res |-> IF r.kind = "Ok" THEN Ok(<< >>) ELSE r]
      /\ UNCHANGED <<fs, last, home, savers, loader>>

Build(filename) ==
  /\ builder.some
  /\ LET r == build(builder.val.self, filename)
     IN  /\ builder' = Some([builder.val EXCEPT
                               !.self = r.self,
                               !.log = @ \cup {<<filename, r.path>>}])
         /\ out' = [op |-> "build", filename |-> filename, path |-> r.path,
                    again |-> \E e \in builder.val.log : e[1] = filename]
  /\ UNCHANGED <<fs, last, home, savers, loader>>

\* the environment of the process changes: the home directory resolves to h
SetHome(h) ==
  /\ h /= home
  /\ home' = h
  /\ out' = [op |-> "env"]
  /\ UNCHANGED <<fs, last, builder, savers, loader>>

NextPath ==
  \/ \E b \in BaseDirs : New(b)
  \/ \E s \in Subdirs : FromHomeSubdir(s)
  \/ \E n \in FileNames : Build(n)
  \/ \E h \in Homes : SetHome(h)

SpecPath == Init /\ [][NextPath]_vars

-----------------------------------------------------------------------------
(* Concurrent callers.  Each filesystem call of a handler is a step; what  *)
(* a handler computes between two calls belongs to the step before.  All   *)
(* callers use the deepest path.  A saver's handle stays on the file it    *)
(* opened: when the entry is removed meanwhile (detached), its write goes  *)
(* to the removed file.  clean tells that since the saver's open no other  *)
(* program has opened, written or removed the file.  write_all of these    *)
(* short texts is one write.                                               *)

RacePath == Chain(MaxDepth)
RaceValues == {Default, TestValue, Unserializable}

Finish(i, r) == [savers EXCEPT ![i].pc = "done", ![i].res = Some(r)]

\* the other savers' handles see a step on the file
Disturb(s, i) ==
  [j \in Callers |-> IF j /= i /\ s[j].pc = "write"
                       THEN [s[j] EXCEPT !.clean = FALSE]
                       ELSE s[j]]

\* save_json_config is called with v
SaveBegin(i, v) ==
  /\ savers[i].pc = "idle"
  /\ savers' = [savers EXCEPT ![i].pc = "create_dir_all", ![i].value = v]
  /\ UNCHANGED <<fs, last, home, builder, out, loader>>

\* create_dir_all(parent), then to_string_pretty
SaveMkdir(i) ==
  /\ savers[i].pc = "create_dir_all"
  /\ LET d == CreateDirAll(fs, Parent(RacePath).val)
         content == ToStringPretty(savers[i].value)
     IN  /\ fs' = d.fs
         /\ savers' =
              IF ~d.ok THEN Finish(i, Err(DirectoryError))
              ELSE IF content.kind = "Err" THEN Finish(i, Err(SerializeError))
              ELSE [savers EXCEPT ![i].pc = "open", ![i].text = content.val]
  /\ UNCHANGED <<last, home, builder, out, loader>>

\* fs::write, first half: File::create
SaveOpen(i) ==
  /\ savers[i].pc = "open"
  /\ LET o == OpenTruncate(fs, RacePath)
     IN  /\ fs' = o.fs
         /\ savers' =
              IF ~o.ok THEN Finish(i, Err(WriteError))
              ELSE Disturb([savers EXCEPT ![i].pc = "write",
                                          ![i].clean = TRUE,
                                          ![i].detached = FALSE], i)
  /\ UNCHANGED <<last, home, builder, out, loader>>

\* fs::write, second half: write_all, and the handle is closed
SaveWrite(i) ==
  /\ savers[i].pc = "write"
  /\ fs' = IF savers[i].detached THEN fs
           ELSE WriteAt(fs, RacePath, savers[i].text)
  /\ savers' = IF savers[i].detached THEN Finish(i, Ok(<< >>))
               ELSE Disturb(Finish(i, Ok(<< >>)), i)
  /\ UNCHANGED <<last, home, builder, out, loader>>

\* load_json_config is called: path.exists()
LoadCheck ==
  /\ loader.pc = "idle"
  /\ loader' = IF Exists(fs, RacePath)
                 THEN [loader EXCEPT !.pc = "read_to_string"]
                 ELSE [loader EXCEPT !.pc = "done", !.res = Some(Ok(Default))]
  /\ UNCHANGED <<fs, last, home, builder, out, savers>>

\* read_to_string, then from_str; found: an entry was at the path at the read
LoadRead ==
  /\ loader.pc = "read_to_string"
  /\ LET content == ReadToString(fs, RacePath)
     IN  loader' = [pc |-> "done",
                    res |-> Some(IF content.kind = "Err" THEN Err(ReadError)
                                 ELSE FromStr(content.val)),
                    found |-> Exists(fs, RacePath)]
  /\ UNCHANGED <<fs, last, home, builder, out, savers>>

\* another program removes an entry and what is below it
RaceRemove(p) ==
  /\ p /= Root
  /\ fs[p].kind /= "none"
  /\ fs' = [q \in Paths |-> IF IsPrefix(p, q) THEN NoEntry ELSE fs[q]]
  /\ savers' = [j \in Callers |->
                  IF savers[j].pc = "write" /\ fs[RacePath].kind = "file"
                    THEN [savers[j] EXCEPT !.clean = FALSE, !.detached = TRUE]
                    ELSE savers[j]]
  /\ UNCHANGED <<last, home, builder, out, loader>>

NextRace ==
  \/ \E i \in Callers, v \in RaceValues : SaveBegin(i, v)
  \/ \E i \in Callers : SaveMkdir(i)
  \/ \E i \in Callers : SaveOpen(i)
  \/ \E i \in Callers : SaveWrite(i)
  \/ LoadCheck
  \/ LoadRead
  \/ \E p \in Paths : RaceRemove(p)

SpecRace == Init /\ [][NextRace]_vars

-----------------------------------------------------------------------------
(* Properties of load_json_config and save_json_config under Spec.         *)

Ancestors(p) == {q \in Paths : IsPrefix(q, p) /\ q /= p}
IsSave(e) == e.op = "save"
IsLoad(e) == e.op = "load"
SavedOk(e) == IsSave(e) /\ e.res.kind = "Ok"

\* C1: a load that directly follows a successful save to the same path, with
\* no change to the file in between, returns Ok of the value saved
RoundTrip ==
  (IsLoad(last) /\ last.follows.some /\ last.follows.val.path = last.path)
    => last.res = Ok(last.follows.val.value)

\* a value with a quote or a backslash in its name came back
RoundTripWitness ==
  /\ IsLoad(last) /\ last.follows.some
  /\ last.follows.val.path = last.path
  /\ last.follows.val.value.name \in {<<Q>>, <<BSL>>}
  /\ last.res.kind = "Ok"

\* C2: a load from a path with no entry returns Ok(default) after the
\* existence check alone: no read, no parse
MissingFileGivesDefault ==
  (IsLoad(last) /\ fs[last.path].kind = "none")
    => (last.res = Ok(Default) /\ last.io = <<"exists">>)

\* a load from a missing path below a missing directory has returned
MissingFileWitness ==
  /\ IsLoad(last) /\ last.path = Chain(MaxDepth)
  /\ fs[Chain(MaxDepth - 1)].kind = "none"
  /\ last.res.kind = "Ok"

\* the parent tree of p is missing in f, and no ancestor is a file
ParentTreeMissing(f, p) ==
  /\ p /= Root
  /\ f[Parent(p).val].kind = "none"
  /\ \A q \in Ancestors(p) : f[q].kind /= "file"

\* C4: a save of a serializable value below a missing parent tree succeeds,
\* and leaves every ancestor a directory and the target a file; a save below
\* an existing parent changes no entry but the target
SaveCreatesParents ==
  [][IsSave(last') =>
       LET p == last'.path
       IN  /\ (ParentTreeMissing(fs, p) /\ last'.value /= Unserializable)
                => last'.res.kind = "Ok"
           /\ last'.res.kind = "Ok"
                => /\ \A q \in Ancestors(p) : fs'[q] = Dir
                   /\ fs'[p].kind = "file"
           /\ (p /= Root /\ fs[Parent(p).val] = Dir)
                => /\ last'.created = {}
                   /\ \A q \in Paths \ {p} : fs'[q] = fs[q]]_vars

\* a save has made several levels of directories
SaveCreatesParentsWitness ==
  /\ SavedOk(last)
  /\ last.path = Chain(MaxDepth)
  /\ Cardinality(last.created) >= 2
  /\ fs[last.path].kind = "file"

Readable(f, p) == f[p].kind = "file" /\ IsUtf8(f[p].data)

\* C5: a load from a readable file that holds no JSON, or JSON that is no
\* TestConfig, returns the parse error; a load from an entry that cannot be
\* read (a directory, bytes that are no UTF-8) returns the read error
BadContentIsParseError ==
  IsLoad(last) =>
    /\ (Readable(fs, last.path)
          /\ fs[last.path].data \in Malformed \cup Mismatched)
         => last.res = Err(ParseError)
    /\ (Exists(fs, last.path) /\ ~Readable(fs, last.path))
         => last.res = Err(ReadError)
    /\ last.res = Err(ParseError) => Readable(fs, last.path)

\* a load of JSON that is no TestConfig has returned the parse error
BadContentWitness ==
  /\ IsLoad(last)
  /\ Readable(fs, last.path)
  /\ fs[last.path].data \in Mismatched
  /\ last.res = Err(ParseError)

TestValueText ==
  <<"{", "\n",
    " ", " ", Q, "n", "a", "m", "e", Q, ":", " ", Q, "t", Q, ",", "\n",
    " ", " ", Q, "v", "a", "l", "u", "e", Q, ":", " ", "4", "2", "\n",
    "}">>

\* C6: after a successful save the file holds the pretty-printed JSON of the
\* value and nothing else, whatever it held before (the text is written out
\* for TestValue)
SaveWritesExactly ==
  SavedOk(last) =>
    /\ fs[last.path] = File(Pretty(last.value))
    /\ FromStr(fs[last.path].data) = Ok(last.value)
    /\ last.value = TestValue => fs[last.path].data = TestValueText

\* a save has replaced a longer text by a shorter one
SaveWritesExactlyWitness ==
  /\ SavedOk(last)
  /\ last.shrank
  /\ fs[last.path].data = Pretty(last.value)

\* C10: the steps of a save run in the order create_dir_all, to_string_pretty,
\* write, and the first failure ends the call with its error; the target
\* changes only in a call that reached write
SaveStopsAtFirstError ==
  [][IsSave(last') =>
       LET p == last'.path
           r == last'.res
           mk == IF p = Root THEN << >> ELSE <<"create_dir_all">>
           blocked == \E q \in Ancestors(p) : fs[q].kind = "file"
       IN  /\ blocked <=> r = Err(DirectoryError)
           /\ r = Err(DirectoryError) => (last'.io = mk /\ fs' = fs)
           /\ (~blocked /\ last'.value = Unserializable)
                <=> r = Err(SerializeError)
           /\ r = Err(SerializeError)
                => last'.io = mk \o <<"to_string_pretty">>
           /\ r \in {Err(DirectoryError), Err(SerializeError)}
                => fs'[p] = fs[p]
           /\ r \in {Err(WriteError), Ok(<< >>)}
                => last'.io = mk \o <<"to_string_pretty", "write">>
           /\ fs'[p] /= fs[p] => r = Ok(<< >>)]_vars

\* a save of a value that does not serialize has made the directories and left
\* no file
SaveStopsWitness ==
  /\ IsSave(last)
  /\ last.res = Err(SerializeError)
  /\ last.created /= {}
  /\ fs[last.path].kind = "none"

-----------------------------------------------------------------------------
(* Properties of ConfigPathBuilder under SpecPath.                         *)

TestDirConfigJson == TestDir \o <<Sep>> \o ConfigJson

\* C7: build returns the base directory joined with the filename (for a
\* relative filename below a base that does not end with a separator: the
\* base, a separator, the filename), reads and changes nothing outside, leaves
\* the builder as it was, and returns what it returned before for the same
\* filename; new stores its argument as it is
BuildIsPure ==
  [][/\ out'.op = "build" =>
          LET base == builder.val.self.base_dir
              name == out'.filename
          IN  /\ builder'.val.self = builder.val.self
              /\ builder'.val.ctor = builder.val.ctor
              /\ <<fs', home'>> = <<fs, home>>
              /\ (base /= << >> /\ base[Len(base)] /= Sep /\ ~IsAbsolute(name))
                   => out'.path = base \o <<Sep>> \o name
              /\ Components(out'.path) =
                   IF IsAbsolute(name) THEN Components(name)
                   ELSE [abs |-> IF base = << >> THEN FALSE
                                 ELSE IsAbsolute(base),
                         names |-> Components(base).names
                                     \o Components(name).names]
              /\ (base = TestDir /\ name = ConfigJson)
                   => out'.path = TestDirConfigJson
              /\ \A e \in builder.val.log : e[1] = name => e[2] = out'.path
     /\ out'.op = "new" => builder'.val.self.base_dir = out'.arg]_vars

\* the same filename built a second time on the builder of the test
BuildIsPureWitness ==
  /\ out.op = "build"
  /\ out.again
  /\ builder.val.self.base_dir = TestDir
  /\ out.path = TestDirConfigJson

\* C8: from_home_subdir returns the home-directory error exactly when the home
\* directory does not resolve, and then makes no builder; otherwise the new
\* builder's base is the home joined with the subdirectory, and built from
\* ".claude" it gives <home>/.claude/settings.json for "settings.json"
FromHomeSubdirResult ==
  [][/\ out'.op = "from_home_subdir" =>
          /\ out'.res = Err(HomeDirError) <=> ~home.some
          /\ out'.res.kind = "Ok" <=> home.some
          /\ ~home.some => builder' = builder
          /\ home.some =>
               /\ builder'.some
               /\ builder'.val.log = {}
               /\ Components(builder'.val.self.base_dir) =
                    [abs |-> TRUE,
                     names |-> Append(Components(home.val).names, out'.arg)]
     /\ (/\ out'.op = "build"
         /\ builder.val.ctor.op = "from_home_subdir"
         /\ builder.val.ctor.subdir = DotClaude
         /\ out'.filename = SettingsJson)
          => Components(out'.path) =
               [abs |-> TRUE,
                names |-> Components(builder.val.ctor.home.val).names
                            \o <<DotClaude, SettingsJson>>]]_vars

\* the home directory did not resolve and the caller's builder is the one it
\* had
FromHomeSubdirWitness ==
  /\ out.op = "from_home_subdir"
  /\ out.res = Err(HomeDirError)
  /\ builder.some
  /\ builder.val.ctor.op = "from_home_subdir"

-----------------------------------------------------------------------------
(* Properties of concurrent callers under SpecRace.                        *)

LoaderFailed == loader.pc = "done" /\ loader.res.val.kind = "Err"

\* C3: a load returns the read error or the parse error only when an entry
\* was at the path when it was read: a missing file gives the default
MissingFileNeverFails == LoaderFailed => loader.found

SaversDone == \A i \in Callers : savers[i].pc = "done"
BothSavedOk == \A i \in Callers : savers[i].res = Some(Ok(<< >>))

=============================================================================
